---- MODULE Spec2Model ----
(***************************************************************************)
(* Certificate platform backend: the bulk issuance pipeline of             *)
(* POST /api/admin/upload-csv (src/index.js) and its row validator.        *)
(* The server of src/unnamed/part_000 has the same handler over a          *)
(* sendCertificateEmail without timer; it is the specification SpecLegacy. *)
(*                                                                         *)
(* Strings are sequences of one-character strings, so that trim,           *)
(* toLowerCase and the e-mail regular expression are computed character    *)
(* by character.  Dates (dateOfIssue, createdAt) are not modelled.         *)
(***************************************************************************)
EXTENDS Integers, Sequences, FiniteSets, TLC

(***************************************************************************)
(* Bounds of the model.                                                    *)
(***************************************************************************)
\* longest e-mail cell enumerated for the validator
MaxEmailLen == 5
\* rows submitted over all requests
MaxRows == 2

(***************************************************************************)
(* JavaScript strings and values.                                          *)
(***************************************************************************)
\* the value of a missing property: row['Name'] when the CSV has no such column
Undefined == << "undefined" >>

\* characters matched by \s and stripped by String.prototype.trim
Whitespace == { " ", "\t" }

\* the characters the model builds cells from
Alphabet == { "a", "B", " ", "@", "." }

\* JS truthiness of a cell: undefined and '' are falsy
Truthy(v) == v /= Undefined /\ v /= << >>

\* a || b
Or(a, b) == IF Truthy(a) THEN a ELSE b

\* row[key]
Get(row, key) == IF key \in DOMAIN row THEN row[key] ELSE Undefined

RECURSIVE TrimStart(_)
TrimStart(s) ==
    IF s /= << >> /\ Head(s) \in Whitespace THEN TrimStart(Tail(s)) ELSE s

RECURSIVE TrimEnd(_)
TrimEnd(s) ==
    IF s /= << >> /\ s[Len(s)] \in Whitespace
    THEN TrimEnd(SubSeq(s, 1, Len(s) - 1))
    ELSE s

\* String.prototype.trim
Trim(s) == TrimEnd(TrimStart(s))

LowerChar(c) == IF c = "B" THEN "b" ELSE c

\* String.prototype.toLowerCase
ToLowerCase(s) == [k \in 1..Len(s) |-> LowerChar(s[k])]

(***************************************************************************)
(* The regular expression /^[^\s@]+@[^\s@]+\.[^\s@]+$/ as a pattern and a  *)
(* backtracking matcher.                                                   *)
(***************************************************************************)
\* [^\s@]
NotSpaceAt(c) == c \notin Whitespace /\ c /= "@"

\* /^[^\s@]+@[^\s@]+$/
emailRegexWithoutDot ==
    << [kind |-> "plus", ch |-> ""],
       [kind |-> "lit",  ch |-> "@"],
       [kind |-> "plus", ch |-> ""] >>

emailRegex ==
    << [kind |-> "plus", ch |-> ""],
       [kind |-> "lit",  ch |-> "@"],
       [kind |-> "plus", ch |-> ""],
       [kind |-> "lit",  ch |-> "."],
       [kind |-> "plus", ch |-> ""] >>

\* does pat[p..] match s[i..] up to the end of s
RECURSIVE MatchFrom(_, _, _, _)
MatchFrom(pat, s, p, i) ==
    IF p > Len(pat)
    THEN i = Len(s) + 1
    ELSE IF pat[p].kind = "lit"
         THEN /\ i <= Len(s)
              /\ s[i] = pat[p].ch
              /\ MatchFrom(pat, s, p + 1, i + 1)
         ELSE \E n \in 1..(Len(s) - i + 1) :
                  /\ \A k \in i..(i + n - 1) : NotSpaceAt(s[k])
                  /\ MatchFrom(pat, s, p + 1, i + n)

\* emailRegex.test(email)
RegexTest(pat, s) == MatchFrom(pat, s, 1, 1)

(***************************************************************************)
(* validateCsvRow                                                          *)
(***************************************************************************)
MissingFields == "Missing required fields: Name and Email"
InvalidEmail == "Invalid email format: "
\* 'General Program'
GeneralProgram ==
    << "G", "e", "n", "e", "r", "a", "l", " ", "P", "r", "o", "g", "r", "a", "m" >>

NoData == [studentName |-> Undefined, email |-> Undefined, programName |-> Undefined]

ResolveName(row) ==
    Or(Or(Or(Get(row, "Name"), Get(row, "name")), Get(row, "Student Name")),
       Get(row, "student_name"))

ResolveEmail(row) == Or(Get(row, "Email"), Get(row, "email"))

ResolveProgram(row) == Or(Or(Get(row, "Program"), Get(row, "program")), GeneralProgram)

\* the validator with `!studentName && !email` for its first test
validateCsvRowBothMissing(row) ==
    LET studentName == ResolveName(row)
        email       == ResolveEmail(row)
        programName == ResolveProgram(row)
    IN  IF ~Truthy(studentName) /\ ~Truthy(email)
        THEN [valid |-> FALSE, error |-> MissingFields, arg |-> << >>, data |-> NoData]
        ELSE IF ~RegexTest(emailRegex, email)
        THEN [valid |-> FALSE, error |-> InvalidEmail, arg |-> email, data |-> NoData]
        ELSE [valid |-> TRUE, error |-> "", arg |-> << >>,
              data |-> [studentName |-> Trim(studentName),
                        email       |-> ToLowerCase(Trim(email)),
                        programName |-> Trim(programName)]]

validateCsvRow(row) ==
    LET studentName == ResolveName(row)
        email       == ResolveEmail(row)
        programName == ResolveProgram(row)
    IN  IF ~Truthy(studentName) \/ ~Truthy(email)
        THEN [valid |-> FALSE, error |-> MissingFields, arg |-> << >>, data |-> NoData]
        ELSE IF ~RegexTest(emailRegex, email)
        THEN [valid |-> FALSE, error |-> InvalidEmail, arg |-> email, data |-> NoData]
        ELSE [valid |-> TRUE, error |-> "", arg |-> << >>,
              data |-> [studentName |-> Trim(studentName),
                        email       |-> ToLowerCase(Trim(email)),
                        programName |-> Trim(programName)]]

(***************************************************************************)
(* State.                                                                  *)
(***************************************************************************)
\* the upload requests the server may be handling at once, named in the
\* order they arrive
Requests == { 1, 2 }

VARIABLES
    \* collaborators shared by all requests
    db,                     \* the Certificate collection (documents saved)
    bucket,                 \* the objects of the Supabase bucket 'Mediseek'
    outbox,                 \* mails the transport accepted
    uuidCount,              \* number of uuidv4() values drawn so far
    \* one POST /api/admin/upload-csv handler per request
    pc,                     \* where the handler of a request stands
    csvRows,                \* the rows of req.file.buffer
    pos,                    \* rows the parser has emitted as 'data'
    results,                \* const results = []
    errors,                 \* const errors = []
    idx,                    \* position of student in results (for ... of)
    certificateId,          \* const certificateId of the running pass
    pdfBuffer,              \* const pdfBuffer of the running pass
    certificateUrl,         \* const certificateUrl of the running pass
    processedCertificates,
    failedCertificates,
    response,               \* what res.status(..).json(..) sent
    mail,                   \* what the transport does with the mail in flight, where known
    waited,                 \* ms the handler has awaited its mails, at most
    calls                   \* per request, the collaborator calls made so far

shared == << db, bucket, outbox, uuidCount >>
parse  == << csvRows, pos, results, errors >>
pass   == << idx, certificateId, pdfBuffer, certificateUrl >>
lists  == << processedCertificates, failedCertificates >>
notify == << mail, waited >>
vars   == << shared, pc, parse, pass, lists, response, notify, calls >>

(***************************************************************************)
(* Values of the pipeline.                                                 *)
(***************************************************************************)
\* an Error with its message; detail is the part interpolated into it
Msg(text, detail) == [text |-> text, detail |-> detail]

\* substring test on a message given as a sequence of words
Includes(message, word) == \E k \in 1..Len(message) : message[k] = word

\* uuidv4(): a value no earlier call returned
uuidv4 == uuidCount + 1

\* an id that does not depend on the uuid drawn
CertIdFixed(uuid) == << "cert_", 1 >>

\* `cert_${uuidv4()}`
CertId(uuid) == << "cert_", uuid >>

NoId == << "cert_", 0 >>
NoBuffer == [studentName |-> << >>, certificateId |-> NoId, programName |-> << >>]
NoUrl == << "", NoId, "" >>

\* `Mediseek/${certificateId}.pdf`
FileName(id) == << "Mediseek/", id, ".pdf" >>

\* supabase.storage.from('Mediseek').getPublicUrl(fileName)
PublicUrl(fileName) == fileName

(***************************************************************************)
(* generateCertificate: the PDF, or the fault pdfkit raised.  The promise  *)
(* is returned without await, so its rejection leaves the function as it   *)
(* is; only a synchronous throw would be re-worded by the outer catch.     *)
(***************************************************************************)
RenderFaults == { "none", "unknown font" }

\* a renderer that rejects with a message of its own for every fault
generateCertificateRewording(studentName, id, programName, fault) ==
    IF fault = "none"
    THEN [ok |-> TRUE, message |-> Msg("", << >>),
          buffer |-> [studentName |-> studentName, certificateId |-> id,
                      programName |-> programName]]
    ELSE [ok |-> FALSE, message |-> Msg("Certificate generation failed", << >>),
          buffer |-> NoBuffer]

\* a renderer that logs the fault and resolves with what it has
generateCertificateSwallowing(studentName, id, programName, fault) ==
    [ok |-> TRUE, message |-> Msg("", << >>),
     buffer |-> [studentName |-> studentName, certificateId |-> id,
                 programName |-> programName]]

generateCertificate(studentName, id, programName, fault) ==
    IF fault = "none"
    THEN [ok |-> TRUE, message |-> Msg("", << >>),
          buffer |-> [studentName |-> studentName, certificateId |-> id,
                      programName |-> programName]]
    ELSE [ok |-> FALSE, message |-> Msg(fault, << >>), buffer |-> NoBuffer]

(***************************************************************************)
(* uploadToSupabase: error is what storage.upload answered.                *)
(***************************************************************************)
NoError == [isNull |-> TRUE, message |-> << >>, statusCode |-> ""]

StoreErrors ==
    { [isNull |-> FALSE, message |-> << "getaddrinfo", "ENOTFOUND" >>, statusCode |-> ""],
      [isNull |-> FALSE, message |-> << "new", "row", "violates", "row-level security policy" >>,
       statusCode |-> "400"],
      [isNull |-> FALSE, message |-> << "Forbidden" >>, statusCode |-> "403"],
      [isNull |-> FALSE, message |-> << "Bucket", "not", "found" >>, statusCode |-> "404"],
      [isNull |-> FALSE, message |-> << "connect", "ECONNREFUSED" >>, statusCode |-> ""] }

DnsMessage == "DNS resolution failed. Cannot reach Supabase"
RlsMessage == "Row Level Security (RLS) Policy Error."
UploadFailedMessage == "Failed to upload certificate: "

\* an upload that throws the same message whatever the store answered
uploadToSupabaseOneReason(buffer, id, error) ==
    IF ~error.isNull
    THEN [ok |-> FALSE, message |-> Msg(UploadFailedMessage, error.message), url |-> NoUrl]
    ELSE [ok |-> TRUE, message |-> Msg("", << >>), url |-> PublicUrl(FileName(id))]

\* an upload that logs the error of the store and returns the URL all the same
uploadToSupabaseSwallowing(buffer, id, error) ==
    [ok |-> TRUE, message |-> Msg("", << >>), url |-> PublicUrl(FileName(id))]

uploadToSupabase(buffer, id, error) ==
    IF ~error.isNull
    THEN IF Truthy(error.message) /\ Includes(error.message, "ENOTFOUND")
         THEN [ok |-> FALSE, message |-> Msg(DnsMessage, << >>), url |-> NoUrl]
         ELSE IF Truthy(error.message)
                 /\ (Includes(error.message, "row-level security policy")
                     \/ error.statusCode = "403")
         THEN [ok |-> FALSE, message |-> Msg(RlsMessage, << >>), url |-> NoUrl]
         ELSE [ok |-> FALSE, message |-> Msg(UploadFailedMessage, error.message),
               url |-> NoUrl]
    ELSE [ok |-> TRUE, message |-> Msg("", << >>), url |-> PublicUrl(FileName(id))]

\* storage.upload(fileName, buffer, {upsert: true}) when it answers no error
Upsert(objects, fileName, buffer) ==
    { o \in objects : o.name /= fileName } \cup { [name |-> fileName, body |-> buffer] }

(***************************************************************************)
(* Certificate (certificateSchema) and certificate.save()                  *)
(***************************************************************************)
Certificate(id, student, url) ==
    [certificateId       |-> id,
     studentName         |-> student.studentName,
     email               |-> student.email,
     programName         |-> student.programName,
     certificateUrl      |-> url,
     certificateFileType |-> "application/pdf",
     certificateImageUrl |-> url]

SaveFaults == { "none", "MongoNetworkError" }

\* required: true rejects an empty string
RequiredOk(doc) ==
    /\ doc.studentName /= << >>
    /\ doc.email /= << >>

\* unique: true on certificateId
UniqueOk(doc, collection) == \A c \in collection : c.certificateId /= doc.certificateId

save(doc, collection, fault) ==
    IF ~RequiredOk(doc)
    THEN [ok |-> FALSE, message |-> Msg("Certificate validation failed", << >>)]
    ELSE IF fault /= "none"
    THEN [ok |-> FALSE, message |-> Msg(fault, << >>)]
    ELSE IF ~UniqueOk(doc, collection)
    THEN [ok |-> FALSE, message |-> Msg("E11000 duplicate key error", << >>)]
    ELSE [ok |-> TRUE, message |-> Msg("", << >>)]

(***************************************************************************)
(* sendCertificateEmail: transporter.sendMail raced against a timer        *)
(***************************************************************************)
EmailTimeoutMs == 15000

\* what the transport does with a mail: accept it, refuse it, never answer
Transports == { "sent", "ECONNECTION", "silent" }

\* no mail in flight
NoMail == "none"

\* src/unnamed/part_000: await transporter.sendMail(mailOptions) alone; the
\* promise settles when the transport answers, and not before
sendCertificateEmailLegacy(email, studentName, id, transport) ==
    IF transport = "sent"
    THEN [settled |-> TRUE, ok |-> TRUE, message |-> Msg("", << >>), after |-> 0]
    ELSE IF transport = "silent"
    THEN [settled |-> FALSE, ok |-> FALSE, message |-> Msg("", << >>), after |-> 0]
    ELSE [settled |-> TRUE, ok |-> FALSE, message |-> Msg(transport, << >>), after |-> 0]

\* src/index.js: Promise.race of transporter.sendMail and the timer; the
\* promise settles with the transport's answer or, after EmailTimeoutMs, with
\* the timer's rejection
sendCertificateEmail(email, studentName, id, transport) ==
    IF transport = "sent"
    THEN [settled |-> TRUE, ok |-> TRUE, message |-> Msg("", << >>), after |-> 0]
    ELSE IF transport = "silent"
    THEN [settled |-> TRUE, ok |-> FALSE, message |-> Msg("Email send timeout", << >>),
          after |-> EmailTimeoutMs]
    ELSE [settled |-> TRUE, ok |-> FALSE, message |-> Msg(transport, << >>), after |-> 0]

(***************************************************************************)
(* The raw rows a CSV file of the pipeline model is made of.               *)
(***************************************************************************)
AnnRow    == [Name |-> << "a", "a" >>, Email |-> << "a", "@", "a", ".", "a" >>]
BoRow     == [name |-> << " ", "B", " " >>, email |-> << "B", "@", "a", ".", "a" >>,
              Program |-> << "a" >>]
NoNameRow == [Name |-> << >>, Email |-> << "a", "@", "a", ".", "a" >>]
BadRow    == [Name |-> << "B" >>, Email |-> << "a", ".", "a" >>]

RowSamples == { AnnRow, BoRow, NoNameRow, BadRow }

RECURSIVE SeqsUpTo(_, _)
SeqsUpTo(S, n) ==
    IF n <= 0 THEN { << >> }
    ELSE LET shorter == SeqsUpTo(S, n - 1)
         IN  shorter \cup { Append(q, x) : q \in { t \in shorter : Len(t) = n - 1 }, x \in S }

RECURSIVE SumLen(_, _)
SumLen(f, S) ==
    IF S = { } THEN 0
    ELSE LET x == CHOOSE y \in S : TRUE IN Len(f[x]) + SumLen(f, S \ { x })

\* req.file: absent, or a name and the rows of its buffer
NoFile == [present |-> FALSE, isCsv |-> FALSE, rows |-> << >>]
TxtFile == [present |-> TRUE, isCsv |-> FALSE, rows |-> << >>]
CsvFiles(room) ==
    { [present |-> TRUE, isCsv |-> TRUE, rows |-> q] : q \in SeqsUpTo(RowSamples, room) }

(***************************************************************************)
(* Responses.                                                              *)
(***************************************************************************)
NoSummary == [totalRecords |-> 0, successfullyProcessed |-> 0, failed |-> 0]

NoResponse ==
    [status |-> 0, success |-> FALSE, error |-> Msg("", << >>), summary |-> NoSummary,
     processed |-> << >>, failed |-> << >>, csvValidationErrors |-> << >>]

\* res.status(status).json({success: false, error, validationErrors})
ErrorResponse(status, error, validationErrors) ==
    [NoResponse EXCEPT !.status = status, !.error = error,
                       !.csvValidationErrors = validationErrors]

\* res.status(200).json({success: true, summary, processed, failed, csvValidationErrors})
OkResponse(valid, processed, failed, invalid) ==
    [status |-> 200, success |-> TRUE, error |-> Msg("", << >>),
     summary |-> [totalRecords |-> Len(valid),
                  successfullyProcessed |-> Len(processed),
                  failed |-> Len(failed)],
     processed |-> processed, failed |-> failed, csvValidationErrors |-> invalid]

\* Array.prototype.unshift
Unshift(list, entry) == << entry >> \o list

\* Array.prototype.push
Push(list, entry) == Append(list, entry)

\* the object pushed on processedCertificates; n is the student's place in
\* results, kept to tell two passes of one recipient apart
ProcessedEntry(n, student, id, url) ==
    [n |-> n, studentName |-> student.studentName, email |-> student.email,
     certificateId |-> id, status |-> "Success", certificateUrl |-> url]

\* the object pushed on failedCertificates by the catch of the loop body
FailedEntry(n, student, message) ==
    [n |-> n, studentName |-> student.studentName, email |-> student.email,
     status |-> "Failed", error |-> message]

\* one collaborator call of the pass of student n: which one, under which
\* certificateId, whether the collaborator itself succeeded, and the error
\* it answered with
Call(n, op, id, ok, answer) ==
    [n |-> n, op |-> op, id |-> id, ok |-> ok, answer |-> answer]

\* the error object of a collaborator that fails with the fault named
Fault(name, healthy) ==
    IF name = healthy
    THEN NoError
    ELSE [isNull |-> FALSE, message |-> << name >>, statusCode |-> ""]

(***************************************************************************)
(* Init                                                                    *)
(***************************************************************************)
InitShared ==
    /\ db = { }
    /\ bucket = { }
    /\ outbox = { }
    /\ uuidCount = 0

InitRequests ==
    /\ pc = [r \in Requests |-> "idle"]
    /\ csvRows = [r \in Requests |-> << >>]
    /\ pos = [r \in Requests |-> 0]
    /\ results = [r \in Requests |-> << >>]
    /\ errors = [r \in Requests |-> << >>]
    /\ idx = [r \in Requests |-> 0]
    /\ certificateId = [r \in Requests |-> NoId]
    /\ pdfBuffer = [r \in Requests |-> NoBuffer]
    /\ certificateUrl = [r \in Requests |-> NoUrl]
    /\ processedCertificates = [r \in Requests |-> << >>]
    /\ failedCertificates = [r \in Requests |-> << >>]
    /\ response = [r \in Requests |-> NoResponse]
    /\ mail = [r \in Requests |-> NoMail]
    /\ waited = [r \in Requests |-> 0]
    /\ calls = [r \in Requests |-> << >>]

Init ==
    /\ InitShared
    /\ InitRequests

(***************************************************************************)
(* POST /api/admin/upload-csv                                              *)
(***************************************************************************)
\* the handler up to bufferStream.pipe(csv()): the two 400 answers, or parsing starts
Submit(r) ==
    /\ pc[r] = "idle"
    /\ \A q \in Requests : q < r => pc[q] /= "idle"
    /\ \E file \in { NoFile, TxtFile } \cup CsvFiles(MaxRows - SumLen(csvRows, Requests)) :
          IF ~file.present
          THEN /\ response' = [response EXCEPT ![r] =
                                   ErrorResponse(400, Msg("No file uploaded", << >>), << >>)]
               /\ pc' = [pc EXCEPT ![r] = "done"]
               /\ UNCHANGED csvRows
          ELSE IF ~file.isCsv
          THEN /\ response' = [response EXCEPT ![r] =
                                   ErrorResponse(400, Msg("File must be a CSV file", << >>), << >>)]
               /\ pc' = [pc EXCEPT ![r] = "done"]
               /\ UNCHANGED csvRows
          ELSE /\ csvRows' = [csvRows EXCEPT ![r] = file.rows]
               /\ pc' = [pc EXCEPT ![r] = "parsing"]
               /\ UNCHANGED response
    /\ UNCHANGED << shared, pos, results, errors, pass, lists, notify, calls >>

\* .on('data', (row) => ...)
OnData(r) ==
    /\ pc[r] = "parsing"
    /\ pos[r] < Len(csvRows[r])
    /\ LET data == csvRows[r][pos[r] + 1]
           v    == validateCsvRow(data)
       IN  /\ pos' = [pos EXCEPT ![r] = pos[r] + 1]
           /\ IF v.valid
              THEN /\ results' = [results EXCEPT ![r] = Push(results[r], v.data)]
                   /\ UNCHANGED errors
              ELSE /\ errors' = [errors EXCEPT ![r] =
                          Push(errors[r], [row |-> data, error |-> v.error, arg |-> v.arg])]
                   /\ UNCHANGED results
    /\ UNCHANGED << shared, pc, csvRows, pass, lists, response, notify, calls >>

\* an 'error' callback that answers while the stream runs on to 'end'
OnErrorStreamGoesOn(r) ==
    /\ pc[r] = "parsing"
    /\ response[r] = NoResponse
    /\ response' = [response EXCEPT ![r] =
                        ErrorResponse(400, Msg("CSV parsing failed: ", << >>), << >>)]
    /\ UNCHANGED << shared, pc, parse, pass, lists, notify, calls >>

\* .on('error', (error) => ...): the parser gave up on the buffer
OnError(r) ==
    /\ pc[r] = "parsing"
    /\ response' = [response EXCEPT ![r] =
                        ErrorResponse(400, Msg("CSV parsing failed: ", << >>), << >>)]
    /\ pc' = [pc EXCEPT ![r] = "done"]
    /\ UNCHANGED << shared, parse, pass, lists, notify, calls >>

\* a loop over two arrays that all requests share
ContinueOnSharedLists(r, n, processed, failed) ==
    /\ processedCertificates' = [q \in Requests |-> processed]
    /\ failedCertificates' = [q \in Requests |-> failed]
    /\ pdfBuffer' = [pdfBuffer EXCEPT ![r] = NoBuffer]
    /\ certificateUrl' = [certificateUrl EXCEPT ![r] = NoUrl]
    /\ IF n <= Len(results[r])
       THEN /\ idx' = [idx EXCEPT ![r] = n]
            /\ certificateId' = [certificateId EXCEPT ![r] = CertId(uuidv4)]
            /\ uuidCount' = uuidCount + 1
            /\ pc' = [pc EXCEPT ![r] = "render"]
            /\ UNCHANGED response
       ELSE /\ idx' = [idx EXCEPT ![r] = 0]
            /\ certificateId' = [certificateId EXCEPT ![r] = NoId]
            /\ pc' = [pc EXCEPT ![r] = "done"]
            /\ response' = [response EXCEPT ![r] =
                                OkResponse(results[r], processed, failed, errors[r])]
            /\ UNCHANGED uuidCount

\* the loop reaches student n of results: the top of the body runs up to
\* await generateCertificate(...); past the last student the 200 is sent
Continue(r, n, processed, failed) ==
    /\ processedCertificates' = [processedCertificates EXCEPT ![r] = processed]
    /\ failedCertificates' = [failedCertificates EXCEPT ![r] = failed]
    /\ pdfBuffer' = [pdfBuffer EXCEPT ![r] = NoBuffer]
    /\ certificateUrl' = [certificateUrl EXCEPT ![r] = NoUrl]
    /\ IF n <= Len(results[r])
       THEN /\ idx' = [idx EXCEPT ![r] = n]
            /\ certificateId' = [certificateId EXCEPT ![r] = CertId(uuidv4)]
            /\ uuidCount' = uuidCount + 1
            /\ pc' = [pc EXCEPT ![r] = "render"]
            /\ UNCHANGED response
       ELSE /\ idx' = [idx EXCEPT ![r] = 0]
            /\ certificateId' = [certificateId EXCEPT ![r] = NoId]
            /\ pc' = [pc EXCEPT ![r] = "done"]
            /\ response' = [response EXCEPT ![r] =
                                OkResponse(results[r], processed, failed, errors[r])]
            /\ UNCHANGED uuidCount

\* the call log of request r grows by a call of the running pass
Log(r, op, ok, answer) ==
    calls' = [calls EXCEPT ![r] =
                 Append(calls[r], Call(idx[r], op, certificateId[r], ok, answer))]

\* a catch that logs the error and forgets the student
CatchWithoutPush(r, message) ==
    Continue(r, idx[r] + 1, processedCertificates[r], failedCertificates[r])

\* a catch that records the failure and throws again: the loop is left and
\* nothing is sent
CatchRethrowing(r, message) ==
    /\ failedCertificates' = [failedCertificates EXCEPT ![r] =
           Push(failedCertificates[r], FailedEntry(idx[r], results[r][idx[r]], message))]
    /\ pc' = [pc EXCEPT ![r] = "done"]
    /\ UNCHANGED << processedCertificates, pass, uuidCount, response >>

\* a catch that records the failure and runs the same student again
CatchRetrying(r, message) ==
    Continue(r, idx[r], processedCertificates[r],
             Push(failedCertificates[r],
                  FailedEntry(idx[r], results[r][idx[r]], message)))

\* catch (error) of the loop body, then the next student
Catch(r, message) ==
    Continue(r, idx[r] + 1, processedCertificates[r],
             Push(failedCertificates[r],
                  FailedEntry(idx[r], results[r][idx[r]], message)))

\* .on('end', async () => ...)
OnEnd(r) ==
    /\ pc[r] = "parsing"
    /\ pos[r] = Len(csvRows[r])
    /\ IF Len(results[r]) = 0
       THEN /\ response' = [response EXCEPT ![r] =
                   ErrorResponse(400, Msg("No valid records found in CSV", << >>), errors[r])]
            /\ pc' = [pc EXCEPT ![r] = "done"]
            /\ UNCHANGED << uuidCount, pass, lists >>
       ELSE Continue(r, 1, << >>, << >>)
    /\ UNCHANGED << db, bucket, outbox, parse, notify, calls >>

\* await generateCertificate(...) settles; on bytes the upload is started
Render(r) ==
    /\ pc[r] = "render"
    /\ \E fault \in RenderFaults :
          LET student == results[r][idx[r]]
              out == generateCertificate(student.studentName, certificateId[r],
                                         student.programName, fault)
          IN  /\ Log(r, "render", fault = "none", Fault(fault, "none"))
              /\ IF out.ok
                 THEN /\ pdfBuffer' = [pdfBuffer EXCEPT ![r] = out.buffer]
                      /\ pc' = [pc EXCEPT ![r] = "upload"]
                      /\ UNCHANGED << uuidCount, idx, certificateId, certificateUrl,
                                      lists, response >>
                 ELSE Catch(r, out.message)
    /\ UNCHANGED << db, bucket, outbox, parse, notify >>

\* await uploadToSupabase(pdfBuffer, certificateId) settles; on a URL the save is started
Upload(r) ==
    /\ pc[r] = "upload"
    /\ \E error \in { NoError } \cup StoreErrors :
          LET out == uploadToSupabase(pdfBuffer[r], certificateId[r], error)
          IN  /\ Log(r, "upload", error.isNull, error)
              /\ IF out.ok
                 THEN /\ bucket' = Upsert(bucket, FileName(certificateId[r]), pdfBuffer[r])
                      /\ certificateUrl' = [certificateUrl EXCEPT ![r] = out.url]
                      /\ pc' = [pc EXCEPT ![r] = "save"]
                      /\ UNCHANGED << uuidCount, idx, certificateId, pdfBuffer,
                                      lists, response >>
                 ELSE /\ Catch(r, out.message)
                      /\ UNCHANGED bucket
    /\ UNCHANGED << db, outbox, parse, notify >>

\* a save whose failure removes the uploaded object again
SaveWithCleanup(r) ==
    /\ pc[r] = "save"
    /\ \E fault \in SaveFaults :
          LET doc == Certificate(certificateId[r], results[r][idx[r]], certificateUrl[r])
              out == save(doc, db, fault)
          IN  /\ Log(r, "save", out.ok, Fault(IF out.ok THEN "none" ELSE out.message.text, "none"))
              /\ IF out.ok
                 THEN /\ db' = db \cup { doc }
                      /\ pc' = [pc EXCEPT ![r] = "email"]
                      /\ UNCHANGED << uuidCount, pass, lists, response, bucket, mail >>
                 ELSE /\ Catch(r, out.message)
                      /\ bucket' = { o \in bucket : o.name /= FileName(certificateId[r]) }
                      /\ UNCHANGED << db, mail >>
    /\ UNCHANGED << outbox, parse, waited >>

\* await certificate.save() settles; on success the mail is started, and
\* the transport deals with it in one of the ways in fates
Saved(r, fates) ==
    /\ \E fault \in SaveFaults :
          LET doc == Certificate(certificateId[r], results[r][idx[r]], certificateUrl[r])
              out == save(doc, db, fault)
          IN  /\ Log(r, "save", out.ok, Fault(IF out.ok THEN "none" ELSE out.message.text, "none"))
              /\ IF out.ok
                 THEN /\ db' = db \cup { doc }
                      /\ pc' = [pc EXCEPT ![r] = "email"]
                      /\ \E transport \in fates :
                            mail' = [mail EXCEPT ![r] = transport]
                      /\ UNCHANGED << uuidCount, pass, lists, response >>
                 ELSE /\ Catch(r, out.message)
                      /\ UNCHANGED << db, mail >>
    /\ UNCHANGED << bucket, outbox, parse, waited >>

\* src/index.js: what the transport does shows when the race settles
Save(r) ==
    /\ pc[r] = "save"
    /\ Saved(r, { NoMail })

\* src/unnamed/part_000: what the transport does decides whether the await
\* ends at all
SaveLegacy(r) ==
    /\ pc[r] = "save"
    /\ Saved(r, Transports)

\* await sendCertificateEmail(...) has settled with out, the transport
\* having dealt with the mail as transport says; on success the push on
\* processedCertificates, then the next student
Notified(r, transport, out) ==
    /\ out.settled
    /\ LET student == results[r][idx[r]]
       IN  /\ Log(r, "email", transport = "sent", Fault(transport, "sent"))
           /\ mail' = [mail EXCEPT ![r] = NoMail]
           /\ waited' = [waited EXCEPT ![r] = waited[r] + out.after]
           /\ IF out.ok
              THEN /\ outbox' = outbox \cup { [to |-> student.email,
                                                certificateId |-> certificateId[r]] }
                   /\ Continue(r, idx[r] + 1,
                               Push(processedCertificates[r],
                                    ProcessedEntry(idx[r], student, certificateId[r],
                                                   certificateUrl[r])),
                               failedCertificates[r])
              ELSE /\ Catch(r, out.message)
                   /\ UNCHANGED outbox
    /\ UNCHANGED << db, bucket, parse >>

\* src/index.js: the race of the mail in flight settles
Email(r) ==
    /\ pc[r] = "email"
    /\ \E transport \in Transports :
          Notified(r, transport,
                   sendCertificateEmail(results[r][idx[r]].email,
                                        results[r][idx[r]].studentName,
                                        certificateId[r], transport))

\* src/unnamed/part_000: the mail in flight settles, if it ever does
EmailLegacy(r) ==
    /\ pc[r] = "email"
    /\ Notified(r, mail[r],
                sendCertificateEmailLegacy(results[r][idx[r]].email,
                                           results[r][idx[r]].studentName,
                                           certificateId[r], mail[r]))

Next ==
    \E r \in Requests :
        \/ Submit(r)
        \/ OnData(r)
        \/ OnError(r)
        \/ OnEnd(r)
        \/ Render(r)
        \/ Upload(r)
        \/ Save(r)
        \/ Email(r)

Spec == Init /\ [][Next]_vars

\* one step of the handler of request r once its upload has arrived; the
\* event loop runs every callback that is ready
Step(r) ==
    OnData(r) \/ OnEnd(r) \/ Render(r) \/ Upload(r) \/ Save(r) \/ Email(r)

SpecLive == Spec /\ \A r \in Requests : WF_vars(Step(r))

(***************************************************************************)
(* The server of src/unnamed/part_000: the same handler over the           *)
(* sendCertificateEmail that has no timer.                                 *)
(***************************************************************************)
NextLegacy ==
    \E r \in Requests :
        \/ Submit(r)
        \/ OnData(r)
        \/ OnError(r)
        \/ OnEnd(r)
        \/ Render(r)
        \/ Upload(r)
        \/ SaveLegacy(r)
        \/ EmailLegacy(r)

StepLegacy(r) ==
    OnData(r) \/ OnEnd(r) \/ Render(r) \/ Upload(r) \/ SaveLegacy(r) \/ EmailLegacy(r)

SpecLegacy ==
    Init /\ [][NextLegacy]_vars /\ \A r \in Requests : WF_vars(StepLegacy(r))

(***************************************************************************)
(* The validator on every cell up to MaxEmailLen: request 1 is parsing a   *)
(* file of one row, and the parser emits that row.                         *)
(***************************************************************************)
NameColumns    == { "Name", "name", "Student Name", "student_name" }
EmailColumns   == { "Email", "email" }
ProgramColumns == { "Program", "program" }

StringsUpTo(n) == SeqsUpTo(Alphabet, n)

NameCells    == { Undefined, << >>, << " " >>, << "a" >>, << " ", "B", " " >> }
EmailCells(n) == { Undefined } \cup StringsUpTo(n)
ProgramCells == { Undefined, << >>, << " " >>, << " ", "a" >> }

\* the row object csv-parser builds: one property per column of the header
Cell(column, cell) == IF cell = Undefined THEN << >> ELSE column :> cell

\* rows under the canonical headers, every cell
CellRows(len) ==
    { Cell("Name", n) @@ Cell("Email", e) @@ Cell("Program", p) :
        n \in NameCells, e \in EmailCells(len), p \in ProgramCells }

\* rows under every header, a few cells
HeaderRows ==
    { Cell(nc, n) @@ Cell(ec, e) @@ Cell(pc0, p) :
        nc \in NameColumns \cup { "NAME", "STUDENT NAME" },
        ec \in EmailColumns \cup { "EMAIL" },
        pc0 \in ProgramColumns \cup { "PROGRAM" },
        n \in { << >>, << "a" >> },
        e \in { << >>, << "a", "@", "a", ".", "a" >> },
        p \in { Undefined, << "a" >> } }

\* rows that carry the name under two headers
TwoNameRows ==
    { ("Name" :> n1) @@ ("name" :> n2) @@ ("Email" :> << "a", "@", "a", ".", "a" >>) :
        n1 \in { << >>, << "a" >> }, n2 \in { << >>, << "B" >> } }

RawRows(len) == CellRows(len) \cup HeaderRows \cup TwoNameRows

InitValidate ==
    /\ InitShared
    /\ \E data \in RawRows(MaxEmailLen) :
          /\ pc = [r \in Requests |-> IF r = 1 THEN "parsing" ELSE "idle"]
          /\ csvRows = [r \in Requests |-> IF r = 1 THEN << data >> ELSE << >>]
    /\ pos = [r \in Requests |-> 0]
    /\ results = [r \in Requests |-> << >>]
    /\ errors = [r \in Requests |-> << >>]
    /\ idx = [r \in Requests |-> 0]
    /\ certificateId = [r \in Requests |-> NoId]
    /\ pdfBuffer = [r \in Requests |-> NoBuffer]
    /\ certificateUrl = [r \in Requests |-> NoUrl]
    /\ processedCertificates = [r \in Requests |-> << >>]
    /\ failedCertificates = [r \in Requests |-> << >>]
    /\ response = [r \in Requests |-> NoResponse]
    /\ mail = [r \in Requests |-> NoMail]
    /\ waited = [r \in Requests |-> 0]
    /\ calls = [r \in Requests |-> << >>]

NextValidate == OnData(1)

SpecValidate == InitValidate /\ [][NextValidate]_vars

(***************************************************************************)
(* Properties.                                                             *)
(***************************************************************************)
Entries(list) == { list[k] : k \in DOMAIN list }

CallsOf(r) == Entries(calls[r])

\* the loop of request r ran to its end and the 200 was sent
Completed(r) == pc[r] = "done" /\ response[r].status = 200

\* request r was answered with an outcome: the 200, or the 400 of a file
\* without a valid row
Answered(r) ==
    \/ Completed(r)
    \/ pc[r] = "done" /\ response[r].error.text = "No valid records found in CSV"

\* what validateCsvRow returns for the rows of the pipeline's files
SampleValidation == [data \in RowSamples |-> validateCsvRow(data)]

\* validateCsvRow(data)
Validation(data) ==
    IF data \in RowSamples THEN SampleValidation[data] ELSE validateCsvRow(data)

IsValid(data) == Validation(data).valid

\* how many of the first k rows are valid (TRUE) or invalid (FALSE)
Rank(rows, k, valid) == Cardinality({ i \in 1..k : IsValid(rows[i]) = valid })

\* how often row k of the file of request r is listed in the answer
TimesListed(r, k) ==
    LET rows == csvRows[r]
        out  == response[r]
        j    == Rank(rows, k, IsValid(rows[k]))
    IN  IF IsValid(rows[k])
        THEN Cardinality({ i \in DOMAIN out.processed : out.processed[i].n = j })
             + Cardinality({ i \in DOMAIN out.failed : out.failed[i].n = j })
        ELSE Cardinality({ i \in DOMAIN out.csvValidationErrors :
                             i = j /\ out.csvValidationErrors[i].row = rows[k] })

\* C1: when a batch is answered, succeeded + failed = valid rows, valid rows +
\* invalid rows = input rows, and every input row is listed exactly once in
\* exactly one of the three lists.
C1_EveryRowClassifiedOnce ==
    \A r \in Requests :
        Answered(r) =>
            LET out == response[r]
            IN  /\ out.summary.totalRecords = Len(results[r])
                /\ Len(out.processed) + Len(out.failed) = Len(results[r])
                /\ out.summary.successfullyProcessed = Len(out.processed)
                /\ out.summary.failed = Len(out.failed)
                /\ Len(results[r]) + Len(out.csvValidationErrors) = Len(csvRows[r])
                /\ \A k \in 1..Len(csvRows[r]) : TimesListed(r, k) = 1

\* a batch of an invalid row and a valid row whose pass failed was answered
C1_Witness ==
    \E r \in Requests :
        /\ Completed(r)
        /\ Len(response[r].failed) = 1
        /\ Len(response[r].csvValidationErrors) = 1

\* C2: a recipient whose upload the store refused has no record in the
\* collection, no save and no mail attempted, no mail sent, no entry in
\* succeeded, and an entry in failed.
C2_StoreFailureStopsThePass ==
    \A r \in Requests : \A c \in CallsOf(r) :
        (c.op = "upload" /\ ~c.ok) =>
            /\ \A d \in db : d.certificateId /= c.id
            /\ \A m \in outbox : m.certificateId /= c.id
            /\ \A o \in CallsOf(r) : o.n = c.n => o.op \notin { "save", "email" }
            /\ \A e \in Entries(processedCertificates[r]) : e.n /= c.n
            /\ \E e \in Entries(failedCertificates[r]) : e.n = c.n
            /\ Completed(r) =>
                  /\ \A e \in Entries(response[r].processed) : e.n /= c.n
                  /\ \E e \in Entries(response[r].failed) : e.n = c.n

\* a batch was answered in which the store refused an upload
C2_Witness ==
    \E r \in Requests :
        /\ Completed(r)
        /\ \E c \in CallsOf(r) : c.op = "upload" /\ ~c.ok

\* C3: a recipient whose record was saved and whose mail then failed is
\* listed in succeeded with its certificateId and URL, and not in failed.
C3_NotifyFailureDoesNotDemote ==
    \A r \in Requests : \A c \in CallsOf(r) :
        (c.op = "email" /\ ~c.ok) =>
            /\ \E e \in Entries(processedCertificates[r]) :
                  /\ e.n = c.n
                  /\ e.certificateId = c.id
                  /\ e.certificateUrl = PublicUrl(FileName(c.id))
            /\ \A e \in Entries(failedCertificates[r]) : e.n /= c.n

\* the call at place k of the log of r was preceded by a successful call op
\* of the same pass under the same certificateId
Preceded(r, k, op) ==
    \E j \in 1..(k - 1) : calls[r][j] = Call(calls[r][k].n, op, calls[r][k].id, TRUE, NoError)

\* C4: within a pass the certificateId is generated first, the upload is
\* called only after the render gave bytes, the save only after the store
\* gave a URL, the mail only after the save succeeded; a saved record has its
\* object in the bucket and a sent mail has its record in the collection.
C4_StepsInOrder ==
    /\ \A r \in Requests : \A k \in DOMAIN calls[r] :
          LET c == calls[r][k]
          IN  /\ c.id /= NoId
              /\ c.op = "render" => \A j \in 1..(k - 1) : calls[r][j].n /= c.n
              /\ c.op = "upload" => Preceded(r, k, "render")
              /\ c.op = "save" => Preceded(r, k, "upload")
              /\ c.op = "email" => Preceded(r, k, "save")
    /\ \A d \in db : \E o \in bucket : o.name = FileName(d.certificateId)
    /\ \A m \in outbox : \E d \in db : d.certificateId = m.certificateId

\* a pass went all the way to the mail
C4_Witness ==
    \E r \in Requests : \E c \in CallsOf(r) : c.op = "email" /\ c.ok

\* C5: a failing pass does not end the batch: a request whose loop started
\* ends with the 200 and with a pass for every valid row, and every record
\* once saved stays in the collection as it was saved.
C5_FailureIsolated ==
    \A r \in Requests :
        /\ (pc[r] = "done" /\ calls[r] /= << >>) =>
              /\ Completed(r)
              /\ \A n \in 1..Len(results[r]) :
                    \E c \in CallsOf(r) : c.n = n /\ c.op = "render"
        /\ pc[r] \in { "render", "upload", "save", "email" } =>
              idx[r] \in 1..Len(results[r])
        /\ \A c \in CallsOf(r) :
              (c.op = "save" /\ c.ok) =>
                  Certificate(c.id, results[r][c.n], PublicUrl(FileName(c.id))) \in db

\* the first recipient's pass failed and the second recipient's record was saved
C5_Witness ==
    \E r \in Requests :
        /\ Completed(r)
        /\ \E c \in CallsOf(r) : c.n = 1 /\ ~c.ok
        /\ \E c \in CallsOf(r) : c.n = 2 /\ c.op = "save" /\ c.ok

Increasing(list) == \A i, j \in DOMAIN list : i < j => list[i].n < list[j].n

\* the valid rows of a file, in the order of the file
ValidRows(rows) == SelectSeq(rows, IsValid)

\* the entries of list name recipients of the file of r, in the order of the file
InInputOrder(r, list) ==
    LET valid == ValidRows(csvRows[r])
    IN  /\ Increasing(list)
        /\ \A e \in Entries(list) :
              /\ e.n \in 1..Len(valid)
              /\ LET data == Validation(valid[e.n]).data
                 IN  /\ e.studentName = data.studentName
                     /\ e.email = data.email

\* C6: succeeded and failed are each in the order of the input rows, while
\* the loop runs and in the answer; a file of valid rows whose steps all
\* succeed is answered with one succeeded entry per row, in row order.
C6_ListsInInputOrder ==
    \A r \in Requests :
        /\ InInputOrder(r, processedCertificates[r])
        /\ InInputOrder(r, failedCertificates[r])
        /\ Completed(r) =>
              /\ InInputOrder(r, response[r].processed)
              /\ InInputOrder(r, response[r].failed)
              /\ ((\A c \in CallsOf(r) : c.ok)
                  /\ (\A k \in 1..Len(csvRows[r]) : IsValid(csvRows[r][k]))) =>
                    /\ Len(response[r].processed) = Len(csvRows[r])
                    /\ \A k \in 1..Len(csvRows[r]) :
                          /\ response[r].processed[k].n = k
                          /\ response[r].processed[k].studentName
                                = Validation(csvRows[r][k]).data.studentName

\* two different recipients were both issued their certificate in one batch
C6_Witness ==
    \E r \in Requests :
        /\ Completed(r)
        /\ Len(response[r].processed) = 2
        /\ response[r].processed[1].email /= response[r].processed[2].email

\* every pass begun so far, with its certificateId
PassIds ==
    UNION { { << r, c.n, c.id >> : c \in CallsOf(r) } : r \in Requests }
    \cup { << r, idx[r], certificateId[r] >> :
             r \in { q \in Requests : pc[q] \in { "render", "upload", "save", "email" } } }

\* every succeeded entry so far, with its request
Succeeded ==
    UNION { { << r, e >> : e \in Entries(processedCertificates[r]) } : r \in Requests }

\* C7: no two passes, of one batch or of two, share a certificateId; two
\* succeeded entries have different ids and each its own record; the
\* collection holds no two records under one id.
C7_FreshIds ==
    /\ \A p, q \in PassIds : p[3] = q[3] => p = q
    /\ \A p \in PassIds : p[3] /= NoId
    /\ \A s, t \in Succeeded :
          /\ s /= t => s[2].certificateId /= t[2].certificateId
          /\ \E d \in db :
                /\ d.certificateId = s[2].certificateId
                /\ d.studentName = s[2].studentName
                /\ d.email = s[2].email
    /\ \A d1, d2 \in db : d1.certificateId = d2.certificateId => d1 = d2

\* one recipient was issued two certificates, in one batch or in two
C7_Witness ==
    \E s, t \in Succeeded :
        /\ s /= t
        /\ s[2].studentName = t[2].studentName
        /\ s[2].email = t[2].email

(***************************************************************************)
(* Properties of the validator, on the row request 1 is parsing.           *)
(***************************************************************************)
\* the parser has emitted the row of the one-row file of request 1
Validated == pc[1] = "parsing" /\ Len(csvRows[1]) = 1 /\ pos[1] = 1

TheRow == csvRows[1][1]

\* the first non-empty cell of data under the headers cols, '' when there is none
FirstCell(data, cols) ==
    LET filled == { k \in 1..Len(cols) : cols[k] \in DOMAIN data /\ data[cols[k]] /= << >> }
    IN  IF filled = { } THEN << >>
        ELSE data[cols[CHOOSE k \in filled : \A j \in filled : k <= j]]

NameOf(data)  == FirstCell(data, << "Name", "name", "Student Name", "student_name" >>)
EmailOf(data) == FirstCell(data, << "Email", "email" >>)
ProgramOf(data) ==
    IF FirstCell(data, << "Program", "program" >>) = << >>
    THEN GeneralProgram
    ELSE FirstCell(data, << "Program", "program" >>)

IsSpace(c) == c = " " \/ c = "\t"

\* t is s without its leading and trailing whitespace
IsTrimOf(t, s) ==
    \E i \in 0..Len(s) : \E j \in i..Len(s) :
        /\ t = SubSeq(s, i + 1, j)
        /\ \A k \in 1..i : IsSpace(s[k])
        /\ \A k \in (j + 1)..Len(s) : IsSpace(s[k])
        /\ t /= << >> => ~IsSpace(t[1]) /\ ~IsSpace(t[Len(t)])

\* t is s with its capital letters made small
IsLowerOf(t, s) ==
    /\ Len(t) = Len(s)
    /\ \A k \in 1..Len(s) : t[k] = (IF s[k] = "B" THEN "b" ELSE s[k])

Clean(t) == \A k \in 1..Len(t) : ~IsSpace(t[k]) /\ t[k] /= "@"

\* local@domain: both without whitespace and '@', local not empty, and a
\* dot in domain with text on both sides of it
HasShape(s) ==
    \E a \in 1..Len(s) :
        /\ s[a] = "@"
        /\ LET local  == SubSeq(s, 1, a - 1)
               domain == SubSeq(s, a + 1, Len(s))
           IN  /\ local /= << >>
               /\ Clean(local)
               /\ Clean(domain)
               /\ \E d \in 2..(Len(domain) - 1) : domain[d] = "."

\* C8: a row with no name or with no e-mail is rejected for its missing
\* field, whatever its e-mail looks like: it is listed in errors with that
\* reason and not in results.
C8_MissingFieldRejected ==
    (Validated /\ (NameOf(TheRow) = << >> \/ EmailOf(TheRow) = << >>)) =>
        /\ results[1] = << >>
        /\ Len(errors[1]) = 1
        /\ errors[1][1].row = TheRow
        /\ errors[1][1].error = MissingFields

\* a row without a name whose e-mail is malformed was rejected for the name
C8_Witness ==
    /\ Validated
    /\ NameOf(TheRow) = << >>
    /\ EmailOf(TheRow) /= << >>
    /\ ~HasShape(EmailOf(TheRow))
    /\ Len(errors[1]) = 1
    /\ errors[1][1].error = MissingFields

\* C9: a row with a name and an e-mail is rejected for its e-mail exactly
\* when the e-mail has not the shape local@domain.tld; otherwise it is
\* accepted as the trimmed name, the trimmed e-mail in small letters and the
\* trimmed program.
C9_EmailShapeDecides ==
    (Validated /\ NameOf(TheRow) /= << >> /\ EmailOf(TheRow) /= << >>) =>
        IF HasShape(EmailOf(TheRow))
        THEN /\ errors[1] = << >>
             /\ Len(results[1]) = 1
             /\ IsTrimOf(results[1][1].studentName, NameOf(TheRow))
             /\ \E t \in { Trim(EmailOf(TheRow)) } :
                   /\ IsTrimOf(t, EmailOf(TheRow))
                   /\ IsLowerOf(results[1][1].email, t)
             /\ IsTrimOf(results[1][1].programName, ProgramOf(TheRow))
        ELSE /\ results[1] = << >>
             /\ Len(errors[1]) = 1
             /\ errors[1][1].error = InvalidEmail
             /\ errors[1][1].arg = EmailOf(TheRow)

\* a row was accepted whose name was trimmed and whose e-mail was made small
C9_Witness ==
    /\ Validated
    /\ Len(results[1]) = 1
    /\ results[1][1].studentName /= NameOf(TheRow)
    /\ results[1][1].email /= EmailOf(TheRow)

\* C10: an accepted row has a name and an e-mail that are not empty.
C10_AcceptedNotEmpty ==
    \A k \in DOMAIN results[1] :
        /\ results[1][k].studentName /= << >>
        /\ results[1][k].email /= << >>

\* the header a spelling stands for, letter case aside
Canonical(header) ==
    CASE header \in { "Name", "name", "NAME" } -> "Name"
      [] header \in { "Student Name", "STUDENT NAME" } -> "Student Name"
      [] header \in { "Email", "email", "EMAIL" } -> "Email"
      [] header \in { "Program", "program", "PROGRAM" } -> "Program"
      [] OTHER -> header

\* no two headers of data are spellings of one header
OneSpellingEach(data) ==
    \A h1, h2 \in DOMAIN data : Canonical(h1) = Canonical(h2) => h1 = h2

\* data under the canonical spelling of its headers
CanonicalRow(data) ==
    [h \in { Canonical(g) : g \in DOMAIN data } |->
        data[CHOOSE g \in DOMAIN data : Canonical(g) = h]]

\* C11: a row is validated to what the same row under the canonical
\* spelling of its headers is validated to, whatever the letter case of its
\* headers.
C11_HeadersCaseInsensitive ==
    (Validated /\ OneSpellingEach(TheRow)) =>
        LET v == validateCsvRow(CanonicalRow(TheRow))
        IN  IF v.valid
            THEN results[1] = << v.data >> /\ errors[1] = << >>
            ELSE /\ results[1] = << >>
                 /\ Len(errors[1]) = 1
                 /\ errors[1][1].error = v.error

\* C12: an accepted row has the program 'General Program' when no program
\* header holds a non-empty cell, the trimmed cell otherwise, and never an
\* empty program.
C12_ProgramDefaults ==
    (Validated /\ Len(results[1]) = 1) =>
        LET supplied == FirstCell(TheRow, << "Program", "program" >>)
        IN  /\ supplied = << >> => results[1][1].programName = GeneralProgram
            /\ supplied /= << >> => IsTrimOf(results[1][1].programName, supplied)
            /\ results[1][1].programName /= << >>

\* the format errors of an upload
FormatErrors == { "No file uploaded", "File must be a CSV file", "CSV parsing failed: " }

\* request r was answered with a format error
FormatRejected(r) == response[r].status = 400 /\ response[r].error.text \in FormatErrors

\* C13: once a batch is answered with a format error (no file, not a CSV
\* file, the parser's error), its handler is over with no pass started: no
\* render, upload, save or mail was called for any row, no list was opened,
\* and no step replaces that answer by another.
C13_FormatErrorStartsNoPass ==
    [][\A r \in Requests :
          /\ FormatRejected(r)' =>
                /\ pc'[r] = "done"
                /\ calls'[r] = << >>
                /\ idx'[r] = 0 /\ certificateId'[r] = NoId /\ mail'[r] = NoMail
                /\ processedCertificates'[r] = << >> /\ failedCertificates'[r] = << >>
          /\ FormatRejected(r) => response'[r] = response[r]]_vars

\* the parser gave up after it had emitted a valid row, while the other
\* batch had a pass behind it
C13_Witness ==
    \E r, q \in Requests :
        /\ pc[r] = "done" /\ response[r].error.text = "CSV parsing failed: "
        /\ results[r] /= << >> /\ calls[r] = << >>
        /\ calls[q] /= << >>

\* the mails of request r that the transport never answered
Unanswered(r) ==
    { k \in DOMAIN calls[r] :
        calls[r][k].op = "email" /\ calls[r][k].answer.message = << "silent" >> }

\* C14: a mail the transport never answers ends after EmailTimeoutMs as the
\* failure 'Email send timeout' of its recipient; no send is awaited for
\* ever, and every batch whose file is being read is answered in the end.
C14_SendIsBounded ==
    \A r \in Requests :
        /\ [](\A k \in Unanswered(r) :
                 \E e \in Entries(failedCertificates[r]) :
                     e.n = calls[r][k].n /\ e.error.text = "Email send timeout")
        /\ [](waited[r] = EmailTimeoutMs * Cardinality(Unanswered(r)))
        /\ (pc[r] = "email") ~> (pc[r] /= "email")
        /\ (pc[r] = "parsing") ~> (pc[r] = "done")

\* a batch was answered after one of its mails had run into the timeout
C14_Witness ==
    \E r \in Requests : Completed(r) /\ Unanswered(r) /= { }

\* the failed uploads of request r, as places of its call log
FailedUploads(r) ==
    { k \in DOMAIN calls[r] : calls[r][k].op = "upload" /\ ~calls[r][k].ok }

\* the reason listed in failedCertificates for the pass of call c of request r
ReasonOf(r, c) ==
    { e.error : e \in { f \in Entries(failedCertificates[r]) : f.n = c.n } }

\* what went wrong in the store, by what it answered
NameNotResolved(error) == \E k \in DOMAIN error.message : error.message[k] = "ENOTFOUND"
Refused(error) == \E k \in DOMAIN error.message : error.message[k] = "ECONNREFUSED"
PolicyRejected(error) ==
    \/ \E k \in DOMAIN error.message : error.message[k] = "row-level security policy"
    \/ error.statusCode = "403"

\* a recipient whose upload the store's policy rejected is listed as failed
\* and has no record
DeniedIsFailed(r, c) ==
    PolicyRejected(c.answer) =>
        /\ \E e \in Entries(failedCertificates[r]) : e.n = c.n
        /\ \A d \in db : d.certificateId /= c.id

C16_SaveFailureLeavesTheArtifact ==
    \A r \in Requests : \A c \in CallsOf(r) :
        (c.op = "save" /\ ~c.ok) =>
            /\ \E e \in Entries(failedCertificates[r]) :
                  e.n = c.n /\ << e.error.text >> = c.answer.message
            /\ \A e \in Entries(processedCertificates[r]) : e.n /= c.n
            /\ \A o \in CallsOf(r) : o.n = c.n => o.op /= "email"
            /\ \A m \in outbox : m.certificateId /= c.id
            /\ \A d \in db : d.certificateId /= c.id
            /\ \E o \in bucket :
                  /\ o.name = FileName(c.id)
                  /\ o.body.certificateId = c.id
                  /\ o.body.studentName = results[r][c.n].studentName

\* a batch was answered in which the save of the first recipient failed and
\* the second recipient went through
C16_Witness ==
    \E r \in Requests :
        /\ Completed(r)
        /\ \E c \in CallsOf(r) : c.n = 1 /\ c.op = "save" /\ ~c.ok
        /\ \E c \in CallsOf(r) : c.n = 2 /\ c.op = "email" /\ c.ok

\* C17: a recipient whose render failed is listed in failed with the
\* renderer's own message and in no other list; the render is the only call
\* of its pass, nothing is uploaded, saved or mailed under its certificateId,
\* and the loop has gone on to the recipients after it.
C17_RenderFailureStopsThePass ==
    \A r \in Requests : \A c \in CallsOf(r) :
        (c.op = "render" /\ ~c.ok) =>
            /\ \E e \in Entries(failedCertificates[r]) :
                  e.n = c.n /\ << e.error.text >> = c.answer.message
            /\ \A e \in Entries(processedCertificates[r]) : e.n /= c.n
            /\ \A o \in CallsOf(r) : o.n = c.n => o = c
            /\ \A o \in bucket : o.name /= FileName(c.id)
            /\ \A d \in db : d.certificateId /= c.id
            /\ \A m \in outbox : m.certificateId /= c.id
            /\ IF pc[r] = "done"
               THEN /\ Completed(r)
                    /\ \A n \in 1..Len(results[r]) : \E o \in CallsOf(r) : o.n = n
               ELSE idx[r] > c.n

\* a batch was answered in which the render of the first recipient failed
\* and the second recipient is listed as succeeded
C17_Witness ==
    \E r \in Requests :
        /\ Completed(r)
        /\ \E c \in CallsOf(r) : c.n = 1 /\ c.op = "render" /\ ~c.ok
        /\ \E e \in Entries(response[r].processed) : e.n = 2

\* the place of a step in a pass
StepNo(op) ==
    CASE op = "render" -> 1 [] op = "upload" -> 2 [] op = "save" -> 3 [] op = "email" -> 4

\* C18: within one batch no step is called twice for one valid row: the call
\* log goes row by row and, within a row, step by step, nothing follows a
\* failed call of a row, and a row that is listed in succeeded or failed is
\* never the running one again.
C18_NoRetry ==
    \A r \in Requests :
        /\ \A i, j \in DOMAIN calls[r] :
              i < j =>
                  \/ calls[r][i].n < calls[r][j].n
                  \/ /\ calls[r][i].n = calls[r][j].n
                     /\ StepNo(calls[r][i].op) < StepNo(calls[r][j].op)
                     /\ calls[r][i].ok
                     /\ calls[r][i].id = calls[r][j].id
        /\ \A e \in Entries(processedCertificates[r]) \cup Entries(failedCertificates[r]) :
              /\ pc[r] \in { "render", "upload", "save", "email" } => idx[r] > e.n
              /\ \E c \in CallsOf(r) : c.n = e.n /\ (~c.ok \/ c.op = "email")

\* a batch was answered after a pass that failed at its upload and a pass
\* that went through all four steps
C18_Witness ==
    \E r \in Requests :
        /\ Completed(r)
        /\ Len(calls[r]) = 6
        /\ \E c \in CallsOf(r) : c.op = "upload" /\ ~c.ok
        /\ \E c \in CallsOf(r) : c.op = "email" /\ c.ok

\* the certificateIds of the records in the collection that batch r saved
PersistedBy(r) ==
    { d.certificateId : d \in { x \in db : \E c \in CallsOf(r) : c.id = x.certificateId } }

\* C19: when a batch is answered, the certificateIds of the records it saved
\* are those listed in succeeded, every succeeded entry has its record with
\* the same name, e-mail and URL, and no recipient listed in failed has a
\* record.
C19_IssuedIffPersisted ==
    \A r \in Requests :
        Completed(r) =>
            /\ PersistedBy(r) = { e.certificateId : e \in Entries(response[r].processed) }
            /\ \A e \in Entries(response[r].processed) :
                  Certificate(e.certificateId, results[r][e.n], e.certificateUrl) \in db
            /\ \A e \in Entries(response[r].failed) :
                  \A c \in CallsOf(r) : c.n = e.n => c.id \notin PersistedBy(r)

\* entry e of a list of request r stands for the valid row e.n of r
OwnEntry(r, e) ==
    /\ e.n \in 1..Len(results[r])
    /\ e.studentName = results[r][e.n].studentName
    /\ e.email = results[r][e.n].email
    /\ \E c \in CallsOf(r) : c.n = e.n
    /\ \A q \in Requests \ { r } : \A c \in CallsOf(q) :
          \A o \in CallsOf(r) : o.n = e.n => o.id /= c.id

====
